---- MODULE Spec2Model ----
(***************************************************************************)
(* A model of the Literary Lions forum: the SQLite tables of               *)
(* database.InitDB, the statements the database package runs against them  *)
(* and the HTTP handlers that call them.  Each request is served by its    *)
(* own goroutine; a handler that runs two statements (the vote toggle:     *)
(* SELECT, then INSERT / UPDATE / DELETE) is two steps, so that the        *)
(* statements of concurrent requests interleave as they do on the shared   *)
(* *sql.DB connection pool.                                                *)
(***************************************************************************)
EXTENDS Integers, Sequences, FiniteSets, Bags, TLC

\* ------------------------------------------------------------------ bounds
NumProcs == 2        \* request goroutines that may run at the same time
MaxUsers == 2        \* user ids 1..MaxUsers; id 1 is the seeded admin
RacePosts == 1       \* post ids offered to the vote handlers in SpecToggle
RaceComments == 1    \* comment ids offered to the vote handlers in SpecToggle
ForumPosts == 2      \* posts of the forum in SpecForum
MaxComments == 1     \* comments created in SpecForum
NumCategories == 2   \* category ids 1..NumCategories (InitDB seeds ten)
TreeComments == 4    \* comments in a list handed to buildCommentTree in SpecTree
MaxBurst == 2        \* calls on one (user, target) the history variable follows
NumConns == 2        \* connections the server answers at the same time in SpecRecover

Procs == 1..NumProcs
Categories == 1..NumCategories
UserIDs == 1..MaxUsers
Conns == 1..NumConns
AdminID == 1

\* ------------------------------------------------------------------ values
\* what QueryRow(...).Scan(&existingLike) leaves: found = FALSE is sql.ErrNoRows
NoRows == [found |-> FALSE, Bool |-> FALSE]
Scanned(isLike) == [found |-> TRUE, Bool |-> isLike]
NoUser == 0                  \* GetCurrentUser returned nil
NoCookie == 0                \* the request carries no session cookie
NoParent == 0                \* comments.parent_id IS NULL
NoReq == [kind |-> "none"]
NotBuilt == [built |-> FALSE, trees |-> <<>>]    \* buildCommentTree has not run
Built(forest) == [built |-> TRUE, trees |-> forest]
NoCategory == 0              \* the request has no "category" parameter
NotANumber == -1             \* a form value strconv.Atoi rejects
\* what the browser forms send as "action", and a request without the field
Actions == {"like", "dislike", "", "LIKE"}
SessionLife == 1             \* a login's session lasts 24 hours: one unit of the clock
NoTx == [state |-> "none"]   \* DeleteUser has not begun a transaction
\* a connection with no request on it; status 0: WriteHeader has not been called
NoRequest == [phase |-> "idle", route |-> "", status |-> 0, body |-> "", panics |-> 0]

VARIABLES
    users,          \* table users: id -> [role, status]
    sessions,       \* table sessions: set of [uuid, user_id, expires_at]
    posts,          \* table posts: set of [id, title, user_id, category_id, created_at]
    comments,       \* table comments: set of [id, user_id, post_id, parent_id, created_at]
    post_likes,     \* table post_likes: bag of [user_id, post_id, is_like]
    comment_likes,  \* table comment_likes: bag of [user_id, comment_id, is_like]
    sqlite_sequence, \* AUTOINCREMENT: the last id given out, per table
    pc,             \* per goroutine: "idle" or "selected" (between the SELECT and the write)
    req,            \* per goroutine: the toggle call in flight
    existingLike,   \* per goroutine: what the SELECT scanned into existingLike
    hist,           \* history variable: the calls on one (user, target) pair
    allComments,    \* the flat comment list handed to buildCommentTree
    commentTrees,   \* the forest buildCommentTree returned for allComments
    clock,          \* time.Now()
    tx,             \* the transaction DeleteUser has begun, and how it ended
    conn            \* per connection: the request on it and the response written

vars == <<users, sessions, posts, comments, post_likes, comment_likes, sqlite_sequence,
          pc, req, existingLike, hist, allComments, commentTrees, clock, tx, conn>>
page == <<allComments, commentTrees>>
server == <<clock, tx, conn>>
tables == <<users, sessions, posts, comments, post_likes, comment_likes, sqlite_sequence>>

\* ------------------------------------------------------------ sessions, users
\* SELECT ... FROM sessions WHERE uuid = ? AND expires_at > ? (with time.Now())
GetSessionByUUIDAnyAge(uuid) == {s \in sessions : s.uuid = uuid}
GetSessionByUUID(uuid) == {s \in sessions : s.uuid = uuid /\ s.expires_at > clock}

\* the user of the request's session cookie, or nil
GetCurrentUser(cookie) ==
    IF cookie = NoCookie THEN NoUser
    ELSE LET found == GetSessionByUUID(cookie) IN
         IF found = {} THEN NoUser
         ELSE LET session == CHOOSE s \in found : TRUE IN
              IF session.user_id \in DOMAIN users THEN session.user_id ELSE NoUser

IsAdmin(userID) == users[userID].role = "admin"
IsSuspended(userID) == users[userID].status = "suspended"

\* ------------------------------------------------------------ post_likes
\* A statement's outcome: err (it failed), t (the table after it), stmts (the
\* mutating statements that ran).

\* the rows WHERE user_id = ? AND post_id = ? matches
PostLikeRows(t, userID, postID) ==
    {r \in BagToSet(t) : r.user_id = userID /\ r.post_id = postID}

\* QueryRow(SELECT is_like ...).Scan: the first matching row, or sql.ErrNoRows
SelectPostLike(t, userID, postID) ==
    LET rows == PostLikeRows(t, userID, postID) IN
    IF rows = {} THEN NoRows ELSE Scanned((CHOOSE r \in rows : TRUE).is_like)

\* UNIQUE(user_id, post_id): may the row be inserted?
UniquePostLikeOff(t, row) == TRUE
UniquePostLike(t, row) == PostLikeRows(t, row.user_id, row.post_id) = {}

\* the rows of bag t outside the set gone
Without(t, gone) == [r \in BagToSet(t) \ gone |-> t[r]]

\* the rows of bag t inside the set kept
Only(t, kept) == [r \in BagToSet(t) \cap kept |-> t[r]]

\* INSERT INTO post_likes (user_id, post_id, is_like) VALUES (?, ?, ?)
InsertPostLike(t, userID, postID, isLike) ==
    LET row == [user_id |-> userID, post_id |-> postID, is_like |-> isLike] IN
    IF UniquePostLike(t, row)
    THEN [err |-> FALSE, t |-> t (+) SetToBag({row}), stmts |-> 1]
    ELSE [err |-> TRUE, t |-> t, stmts |-> 1]

\* DELETE FROM post_likes WHERE user_id = ? AND post_id = ?
DeletePostLike(t, userID, postID) ==
    [err |-> FALSE, t |-> Without(t, PostLikeRows(t, userID, postID)), stmts |-> 1]

\* UPDATE post_likes SET is_like = ? WHERE user_id = ? AND post_id = ?
UpdatePostLikeAnyUser(t, isLike, userID, postID) ==
    [err |-> FALSE,
     t |-> BagOfAll(LAMBDA r : IF r.post_id = postID THEN [r EXCEPT !.is_like = isLike] ELSE r, t),
     stmts |-> 1]
UpdatePostLike(t, isLike, userID, postID) ==
    LET rows == PostLikeRows(t, userID, postID)
        row == [user_id |-> userID, post_id |-> postID, is_like |-> isLike]
    IN [err |-> FALSE,
        t |-> IF rows = {} THEN t
              ELSE Without(t, rows) (+) [r \in {row} |-> BagCardinality(Only(t, rows))],
        stmts |-> 1]

\* LikePost after its SELECT: the one statement it runs, given what it scanned
LikePostExecTwoStatements(t, userID, postID, isLike, existing) ==
    IF ~existing.found THEN InsertPostLike(t, userID, postID, isLike)
    ELSE IF existing.Bool = isLike THEN DeletePostLike(t, userID, postID)
    ELSE LET d == DeletePostLike(t, userID, postID)
             i == InsertPostLike(d.t, userID, postID, isLike)
         IN [err |-> i.err, t |-> i.t, stmts |-> d.stmts + i.stmts]
LikePostExecSwapped(t, userID, postID, isLike, existing) ==
    IF ~existing.found THEN InsertPostLike(t, userID, postID, isLike)
    ELSE IF existing.Bool # isLike THEN DeletePostLike(t, userID, postID)
    ELSE UpdatePostLike(t, isLike, userID, postID)
LikePostExec(t, userID, postID, isLike, existing) ==
    IF ~existing.found THEN InsertPostLike(t, userID, postID, isLike)
    ELSE IF existing.Bool = isLike THEN DeletePostLike(t, userID, postID)
    ELSE UpdatePostLike(t, isLike, userID, postID)

\* LikePost run with no other statement between its SELECT and its write
LikePost(t, userID, postID, isLike) ==
    LikePostExec(t, userID, postID, isLike, SelectPostLike(t, userID, postID))

\* ------------------------------------------------------------ comment_likes
CommentLikeRows(t, userID, commentID) ==
    {r \in BagToSet(t) : r.user_id = userID /\ r.comment_id = commentID}

SelectCommentLike(t, userID, commentID) ==
    LET rows == CommentLikeRows(t, userID, commentID) IN
    IF rows = {} THEN NoRows ELSE Scanned((CHOOSE r \in rows : TRUE).is_like)

\* UNIQUE(user_id, comment_id)
UniqueCommentLike(t, row) == CommentLikeRows(t, row.user_id, row.comment_id) = {}

InsertCommentLikeAlwaysLike(t, userID, commentID, isLike) ==
    LET row == [user_id |-> userID, comment_id |-> commentID, is_like |-> TRUE] IN
    IF UniqueCommentLike(t, row)
    THEN [err |-> FALSE, t |-> t (+) SetToBag({row}), stmts |-> 1]
    ELSE [err |-> TRUE, t |-> t, stmts |-> 1]
InsertCommentLike(t, userID, commentID, isLike) ==
    LET row == [user_id |-> userID, comment_id |-> commentID, is_like |-> isLike] IN
    IF UniqueCommentLike(t, row)
    THEN [err |-> FALSE, t |-> t (+) SetToBag({row}), stmts |-> 1]
    ELSE [err |-> TRUE, t |-> t, stmts |-> 1]

DeleteCommentLike(t, userID, commentID) ==
    [err |-> FALSE, t |-> Without(t, CommentLikeRows(t, userID, commentID)), stmts |-> 1]

UpdateCommentLike(t, isLike, userID, commentID) ==
    LET rows == CommentLikeRows(t, userID, commentID)
        row == [user_id |-> userID, comment_id |-> commentID, is_like |-> isLike]
    IN [err |-> FALSE,
        t |-> IF rows = {} THEN t
              ELSE Without(t, rows) (+) [r \in {row} |-> BagCardinality(Only(t, rows))],
        stmts |-> 1]

LikeCommentExec(t, userID, commentID, isLike, existing) ==
    IF ~existing.found THEN InsertCommentLike(t, userID, commentID, isLike)
    ELSE IF existing.Bool = isLike THEN DeleteCommentLike(t, userID, commentID)
    ELSE UpdateCommentLike(t, isLike, userID, commentID)

LikeComment(t, userID, commentID, isLike) ==
    LikeCommentExec(t, userID, commentID, isLike, SelectCommentLike(t, userID, commentID))

\* ------------------------------------------------------------ history
\* hist follows the toggle calls on one (user, target) pair, the focus: the pair's
\* rows when the first of them began (base), the polarity of each call in the
\* order the calls began (calls), whether two of them ran at the same time
\* (overlap), whether any of them was answered with a 500 (failed), the mutating
\* statements they ran (stmts) and the statements of theirs that failed (faults).  It stops following (tracked = FALSE) when more
\* than MaxBurst calls pile up.  It changes no step of the program.
NoPair == <<"none", 0, 0>>
NoHist == [pair |-> NoPair, tracked |-> FALSE, base |-> EmptyBag, calls |-> <<>>,
           overlap |-> FALSE, failed |-> FALSE, stmts |-> 0, faults |-> 0]
Key(call) == <<call.kind, call.userID, call.targetID>>

\* the rows of a pair, as a bag
PairBag(pair) ==
    IF pair[1] = "post"
    THEN Only(post_likes, PostLikeRows(post_likes, pair[2], pair[3]))
    ELSE Only(comment_likes, CommentLikeRows(comment_likes, pair[2], pair[3]))

InFlightOn(pair) == {q \in Procs : pc[q] = "selected" /\ Key(req[q]) = pair}

HistUntracked(pair) == [NoHist EXCEPT !.pair = pair]

HistBegin(h, call) ==
    LET K == Key(call)
        fresh == IF InFlightOn(K) = {}
                 THEN [pair |-> K, tracked |-> TRUE, base |-> PairBag(K),
                       calls |-> <<call.isLike>>, overlap |-> FALSE,
                       failed |-> FALSE, stmts |-> 0, faults |-> 0]
                 ELSE HistUntracked(K)
    IN IF InFlightOn(h.pair) # {}
       THEN IF K # h.pair THEN h
            ELSE IF h.tracked /\ Len(h.calls) < MaxBurst
                 THEN [h EXCEPT !.calls = Append(@, call.isLike), !.overlap = TRUE]
                 ELSE HistUntracked(K)
       ELSE IF K = h.pair /\ h.tracked /\ Len(h.calls) < MaxBurst
            THEN [h EXCEPT !.calls = Append(@, call.isLike)]
            ELSE fresh

HistEnd(h, call, status, stmts, fault) ==
    IF Key(call) = h.pair /\ h.tracked
    THEN [h EXCEPT !.failed = @ \/ (status = "500 Internal Server Error"),
                   !.stmts = @ + stmts,
                   !.faults = @ + (IF fault THEN 1 ELSE 0)]
    ELSE h

\* ------------------------------------------------------------ vote handlers
Idle(p) ==
    /\ pc' = [pc EXCEPT ![p] = "idle"]
    /\ req' = [req EXCEPT ![p] = NoReq]
    /\ existingLike' = [existingLike EXCEPT ![p] = NoRows]

\* what the handler answers once LikePost / LikeComment has returned err
LikeHandlerStatus(err) ==
    IF err THEN "500 Internal Server Error" ELSE "303 See Other"

\* db.Exec: a statement the store fails (fault) returns an error and changes nothing
Exec(fault, t, outcome) ==
    IF fault THEN [err |-> TRUE, t |-> t, stmts |-> outcome.stmts] ELSE outcome

LikePostHandlerSelectDislikeOnly(p, cookie, postID, action, fault) ==
    /\ pc[p] = "idle"
    /\ LET currentUser == GetCurrentUser(cookie)
           call == [kind |-> "post", userID |-> currentUser, targetID |-> postID,
                    isLike |-> (action # "dislike")]
       IN IF currentUser = NoUser
          THEN UNCHANGED vars
          ELSE IF fault
          THEN /\ hist' = HistEnd(HistBegin(hist, call), call, LikeHandlerStatus(TRUE), 0, TRUE)
               /\ UNCHANGED <<tables, pc, req, existingLike, page, server>>
          ELSE /\ pc' = [pc EXCEPT ![p] = "selected"]
               /\ req' = [req EXCEPT ![p] = call]
               /\ existingLike' = [existingLike EXCEPT
                      ![p] = SelectPostLike(post_likes, currentUser, postID)]
               /\ hist' = HistBegin(hist, call)
               /\ UNCHANGED <<tables, page, server>>
\* POST /like-post up to LikePost's SELECT.  Without a session: 401, nothing runs.
\* A SELECT the store fails (fault): LikePost returns the error, the answer is 500.
LikePostHandlerSelect(p, cookie, postID, action, fault) ==
    /\ pc[p] = "idle"
    /\ LET currentUser == GetCurrentUser(cookie)
           call == [kind |-> "post", userID |-> currentUser, targetID |-> postID,
                    isLike |-> (action = "like")]
       IN IF currentUser = NoUser
          THEN UNCHANGED vars
          ELSE IF fault
          THEN /\ hist' = HistEnd(HistBegin(hist, call), call, LikeHandlerStatus(TRUE), 0, TRUE)
               /\ UNCHANGED <<tables, pc, req, existingLike, page, server>>
          ELSE /\ pc' = [pc EXCEPT ![p] = "selected"]
               /\ req' = [req EXCEPT ![p] = call]
               /\ existingLike' = [existingLike EXCEPT
                      ![p] = SelectPostLike(post_likes, currentUser, postID)]
               /\ hist' = HistBegin(hist, call)
               /\ UNCHANGED <<tables, page, server>>

\* LikePost's INSERT, DELETE or UPDATE, and the handler's response
LikePostHandlerExec(p, fault) ==
    /\ pc[p] = "selected"
    /\ req[p].kind = "post"
    /\ LET r == Exec(fault, post_likes,
                     LikePostExec(post_likes, req[p].userID, req[p].targetID,
                                  req[p].isLike, existingLike[p]))
       IN /\ post_likes' = r.t
          /\ hist' = HistEnd(hist, req[p], LikeHandlerStatus(r.err), r.stmts, r.err)
    /\ Idle(p)
    /\ UNCHANGED <<users, sessions, posts, comments, comment_likes, sqlite_sequence, page, server>>

\* POST /like-comment up to LikeComment's SELECT
LikeCommentHandlerSelect(p, cookie, commentID, action, fault) ==
    /\ pc[p] = "idle"
    /\ LET currentUser == GetCurrentUser(cookie)
           call == [kind |-> "comment", userID |-> currentUser, targetID |-> commentID,
                    isLike |-> (action = "like")]
       IN IF currentUser = NoUser
          THEN UNCHANGED vars
          ELSE IF fault
          THEN /\ hist' = HistEnd(HistBegin(hist, call), call, LikeHandlerStatus(TRUE), 0, TRUE)
               /\ UNCHANGED <<tables, pc, req, existingLike, page, server>>
          ELSE /\ pc' = [pc EXCEPT ![p] = "selected"]
               /\ req' = [req EXCEPT ![p] = call]
               /\ existingLike' = [existingLike EXCEPT
                      ![p] = SelectCommentLike(comment_likes, currentUser, commentID)]
               /\ hist' = HistBegin(hist, call)
               /\ UNCHANGED <<tables, page, server>>

\* LikeComment's INSERT, DELETE or UPDATE, and the handler's response
LikeCommentHandlerExec(p, fault) ==
    /\ pc[p] = "selected"
    /\ req[p].kind = "comment"
    /\ LET r == Exec(fault, comment_likes,
                     LikeCommentExec(comment_likes, req[p].userID, req[p].targetID,
                                     req[p].isLike, existingLike[p]))
       IN /\ comment_likes' = r.t
          /\ hist' = HistEnd(hist, req[p], LikeHandlerStatus(r.err), r.stmts, r.err)
    /\ Idle(p)
    /\ UNCHANGED <<users, sessions, posts, comments, post_likes, sqlite_sequence, page, server>>

\* ------------------------------------------------------------ SpecToggle
\* A forum with users, a post and a comment on it, and nothing voted yet; the
\* vote handlers run, on NumProcs goroutines, with no persistence failure.
Cookies == 0..MaxUsers

InitUsers == [u \in UserIDs |->
                [role |-> IF u = AdminID THEN "admin" ELSE "user", status |-> "active"]]
InitSessions == {[uuid |-> u, user_id |-> u, expires_at |-> SessionLife] : u \in UserIDs}

InitIdle ==
    /\ pc = [p \in Procs |-> "idle"]
    /\ req = [p \in Procs |-> NoReq]
    /\ existingLike = [p \in Procs |-> NoRows]
    /\ hist = NoHist
    /\ allComments = <<>>
    /\ commentTrees = NotBuilt
    /\ clock = 0
    /\ tx = NoTx
    /\ conn = [c \in Conns |-> NoRequest]

InitToggle ==
    /\ users = InitUsers
    /\ sessions = InitSessions
    /\ posts = {[id |-> i, title |-> <<i>>, user_id |-> MaxUsers, category_id |-> 1,
                 created_at |-> i] : i \in 1..RacePosts}
    /\ comments = {[id |-> i, user_id |-> AdminID, post_id |-> 1, parent_id |-> NoParent,
                    created_at |-> RacePosts + i] : i \in 1..RaceComments}
    /\ post_likes = EmptyBag
    /\ comment_likes = EmptyBag
    /\ sqlite_sequence = [users |-> MaxUsers, posts |-> RacePosts, comments |-> RaceComments]
    /\ InitIdle

NextToggle ==
    \/ \E p \in Procs, cookie \in Cookies, postID \in 1..RacePosts, action \in Actions :
          LikePostHandlerSelect(p, cookie, postID, action, FALSE)
    \/ \E p \in Procs : LikePostHandlerExec(p, FALSE)
    \/ \E p \in Procs, cookie \in Cookies, commentID \in 1..RaceComments, action \in Actions :
          LikeCommentHandlerSelect(p, cookie, commentID, action, FALSE)
    \/ \E p \in Procs : LikeCommentHandlerExec(p, FALSE)

SpecToggle == InitToggle /\ [][NextToggle]_vars

\* ------------------------------------------------------------ SpecFault
\* The same forum and handlers over a store that may fail any statement.
NextFault ==
    \/ \E p \in Procs, cookie \in Cookies, postID \in 1..RacePosts, action \in Actions,
          fault \in BOOLEAN : LikePostHandlerSelect(p, cookie, postID, action, fault)
    \/ \E p \in Procs, fault \in BOOLEAN : LikePostHandlerExec(p, fault)
    \/ \E p \in Procs, cookie \in Cookies, commentID \in 1..RaceComments, action \in Actions,
          fault \in BOOLEAN : LikeCommentHandlerSelect(p, cookie, commentID, action, fault)
    \/ \E p \in Procs, fault \in BOOLEAN : LikeCommentHandlerExec(p, fault)

SpecFault == InitToggle /\ [][NextFault]_vars

\* ------------------------------------------------------------ post listings
\* (SELECT COUNT(*) FROM post_likes pl WHERE pl.post_id = p.id AND pl.is_like = ?)
LikesCountAnyPolarity(postID, isLike) ==
    BagCardinality(Only(post_likes, {r \in BagToSet(post_likes) : r.post_id = postID}))
LikesCount(postID, isLike) ==
    BagCardinality(Only(post_likes,
        {r \in BagToSet(post_likes) : r.post_id = postID /\ r.is_like = isLike}))

\* (SELECT COUNT(*) FROM comments cm WHERE cm.post_id = p.id)
CommentsCount(postID) == Cardinality({cm \in comments : cm.post_id = postID})

\* one row of the post SELECT, as rows.Scan fills models.Post
ScanPost(p) ==
    [id |-> p.id, title |-> p.title, user_id |-> p.user_id,
     category_id |-> p.category_id, created_at |-> p.created_at,
     likes_count |-> LikesCount(p.id, TRUE),
     dislikes_count |-> LikesCount(p.id, FALSE),
     comments_count |-> CommentsCount(p.id)]

\* FROM posts p JOIN users u ON p.user_id = u.id JOIN categories c ON p.category_id = c.id
JoinedPosts == {p \in posts : p.user_id \in DOMAIN users /\ p.category_id \in Categories}

\* ORDER BY p.created_at DESC, scanned row by row into []models.Post
RECURSIVE executePosts(_)
executePosts(rows) ==
    IF rows = {} THEN <<>>
    ELSE LET first == CHOOSE p \in rows : \A q \in rows : q.created_at <= p.created_at
         IN <<ScanPost(first)>> \o executePosts(rows \ {first})

GetPostsWithSuspendedFilterAlways(showSuspended) ==
    executePosts({p \in JoinedPosts : users[p.user_id].status = "active"})
GetPostsWithSuspendedFilter(showSuspended) ==
    executePosts({p \in JoinedPosts : showSuspended \/ users[p.user_id].status = "active"})

GetPostsByCategory(categoryID) ==
    executePosts({p \in JoinedPosts : p.category_id = categoryID})

GetPostsByUser(userID) ==
    executePosts({p \in JoinedPosts : p.user_id = userID})

GetLikedPostsByUserAnyVote(userID) ==
    executePosts({p \in JoinedPosts :
        \E pl \in BagToSet(post_likes) : pl.post_id = p.id /\ pl.user_id = userID})
GetLikedPostsByUser(userID) ==
    executePosts({p \in JoinedPosts :
        \E pl \in BagToSet(post_likes) :
            pl.post_id = p.id /\ pl.user_id = userID /\ pl.is_like})

\* ------------------------------------------------------------ sorted listings
\* the ORDER BY clause buildOrderClause writes: its column and its direction
buildOrderClauseDefaultLikes(sortBy, sortOrder) ==
    [column |-> CASE sortBy = "date" -> "p.created_at"
                  [] sortBy = "likes" -> "likes_count"
                  [] sortBy = "comments" -> "comments_count"
                  [] sortBy = "title" -> "p.title"
                  [] OTHER -> "likes_count",
     direction |-> IF sortOrder = "asc" THEN "ASC" ELSE "DESC"]
buildOrderClause(sortBy, sortOrder) ==
    [column |-> CASE sortBy = "date" -> "p.created_at"
                  [] sortBy = "likes" -> "likes_count"
                  [] sortBy = "comments" -> "comments_count"
                  [] sortBy = "title" -> "p.title"
                  [] OTHER -> "p.created_at",
     direction |-> IF sortOrder = "asc" THEN "ASC" ELSE "DESC"]

\* SQLite compares TEXT under the BINARY collation: memcmp over the common
\* length, then the shorter first.  Negative, zero or positive.
RECURSIVE memcmp(_, _)
memcmp(a, b) ==
    IF a = <<>> /\ b = <<>> THEN 0
    ELSE IF a = <<>> THEN -1
    ELSE IF b = <<>> THEN 1
    ELSE IF Head(a) # Head(b) THEN Head(a) - Head(b)
    ELSE memcmp(Tail(a), Tail(b))

\* how ORDER BY <column> compares two rows of the post SELECT
CompareRows(column, v, w) ==
    CASE column = "p.title" -> memcmp(v.title, w.title)
      [] column = "likes_count" -> v.likes_count - w.likes_count
      [] column = "comments_count" -> v.comments_count - w.comments_count
      [] OTHER -> v.created_at - w.created_at

\* the results a query ending in the clause can return: the rows in every
\* order the clause allows (SQLite leaves the order of equal keys open)
executePostsOrdered(rows, orderClause) ==
    LET scanned == {ScanPost(p) : p \in rows}
        n == Cardinality(scanned)
    IN {r \in [1..n -> scanned] :
            /\ \A i, j \in 1..n : r[i] = r[j] => i = j
            /\ \A i, j \in 1..n : i < j =>
                  IF orderClause.direction = "ASC"
                  THEN CompareRows(orderClause.column, r[i], r[j]) <= 0
                  ELSE CompareRows(orderClause.column, r[i], r[j]) >= 0}

GetPostsWithSorting(sortBy, sortOrder) ==
    executePostsOrdered(JoinedPosts, buildOrderClause(sortBy, sortOrder))

GetPostsByCategoryWithSorting(categoryID, sortBy, sortOrder) ==
    executePostsOrdered({p \in JoinedPosts : p.category_id = categoryID},
                        buildOrderClause(sortBy, sortOrder))

GetPostsByUserWithSorting(userID, sortBy, sortOrder) ==
    executePostsOrdered({p \in JoinedPosts : p.user_id = userID},
                        buildOrderClause(sortBy, sortOrder))

GetLikedPostsByUserWithSorting(userID, sortBy, sortOrder) ==
    executePostsOrdered({p \in JoinedPosts :
                            \E pl \in BagToSet(post_likes) :
                                pl.post_id = p.id /\ pl.user_id = userID /\ pl.is_like},
                        buildOrderClause(sortBy, sortOrder))

GetPostsWithSuspendedFilterAndSorting(showSuspended, sortBy, sortOrder) ==
    executePostsOrdered({p \in JoinedPosts :
                            showSuspended \/ users[p.user_id].status = "active"},
                        buildOrderClause(sortBy, sortOrder))

\* the post of the id, as a sequence: empty is sql.ErrNoRows
GetPostByID(id) == executePosts({p \in JoinedPosts : p.id = id})

\* GET /: the posts the home page shows for the request
HomeHandler(cookie, filter, category) ==
    LET currentUser == GetCurrentUser(cookie)
        showSuspended == currentUser # NoUser /\ IsAdmin(currentUser)
    IN CASE filter = "my-posts" ->
              IF currentUser # NoUser THEN GetPostsByUser(currentUser) ELSE <<>>
         [] filter = "liked-posts" ->
              IF currentUser # NoUser THEN GetLikedPostsByUser(currentUser) ELSE <<>>
         [] OTHER ->
              IF category # NoCategory /\ category # NotANumber
              THEN GetPostsByCategory(category)
              ELSE GetPostsWithSuspendedFilter(showSuspended)

\* GET /profile/<username>: the posts the profile page shows
ProfileHandler(userID) ==
    IF userID \in DOMAIN users THEN GetPostsByUser(userID) ELSE <<>>

\* GET /post/<id>: the post the page shows (empty: 404)
ViewPostHandler(postID) == GetPostByID(postID)

\* ------------------------------------------------------------ comments
\* POST /create-comment: CreateComment's INSERT, with the id AUTOINCREMENT gives
\* and created_at the CURRENT_TIMESTAMP of the call (now), which does not run back
CreateCommentHandler(cookie, postID, parentID, content, now) ==
    /\ sqlite_sequence.comments < MaxComments
    /\ \A c \in comments : c.created_at <= now
    /\ LET currentUser == GetCurrentUser(cookie) IN
       IF currentUser = NoUser \/ postID = NotANumber \/ content = ""
          \/ parentID = NotANumber
       THEN UNCHANGED vars
       ELSE /\ comments' = comments \cup
                   {[id |-> sqlite_sequence.comments + 1, user_id |-> currentUser,
                     post_id |-> postID, parent_id |-> parentID, created_at |-> now]}
            /\ sqlite_sequence' = [sqlite_sequence EXCEPT !.comments = @ + 1]
            /\ UNCHANGED <<users, sessions, posts, post_likes, comment_likes,
                           pc, req, existingLike, hist, page, server>>

\* COALESCE(SUM(CASE WHEN cl.is_like = ? THEN 1 ELSE 0 END), 0) over the
\* comment_likes rows the LEFT JOIN pairs with the comment
CommentLikesCount(commentID, isLike) ==
    BagCardinality(Only(comment_likes,
        {r \in BagToSet(comment_likes) : r.comment_id = commentID /\ r.is_like = isLike}))

\* one row of the comment SELECT, as rows.Scan fills models.Comment
ScanComment(c) ==
    [id |-> c.id, user_id |-> c.user_id, post_id |-> c.post_id,
     parent_id |-> c.parent_id, created_at |-> c.created_at,
     likes_count |-> CommentLikesCount(c.id, TRUE),
     dislikes_count |-> CommentLikesCount(c.id, FALSE)]

\* the lists the comment query of a post can return: FROM comments c JOIN users u,
\* WHERE c.post_id = ? [AND u.status = 'active'], ORDER BY c.created_at ASC (the
\* order of comments of one second is open)
GetCommentsWithSuspendedFilterShowAll(postID, showSuspended) ==
    LET scanned == {ScanComment(c) : c \in
                       {d \in comments : d.user_id \in DOMAIN users /\ d.post_id = postID}}
        n == Cardinality(scanned)
    IN {r \in [1..n -> scanned] :
            /\ \A i, j \in 1..n : r[i] = r[j] => i = j
            /\ \A i, j \in 1..n : i < j => r[i].created_at <= r[j].created_at}
GetCommentsWithSuspendedFilter(postID, showSuspended) ==
    LET scanned == {ScanComment(c) : c \in
                       {d \in comments :
                           /\ d.user_id \in DOMAIN users
                           /\ d.post_id = postID
                           /\ showSuspended \/ users[d.user_id].status = "active"}}
        n == Cardinality(scanned)
    IN {r \in [1..n -> scanned] :
            /\ \A i, j \in 1..n : r[i] = r[j] => i = j
            /\ \A i, j \in 1..n : i < j => r[i].created_at <= r[j].created_at}

\* ------------------------------------------------------------ comment tree
\* A comment of the list is [id, parent_id]: the fields of models.Comment the
\* builder reads.  A tree is [Comment, Replies], Replies a sequence of trees.

\* commentMap after the first pass: the comment stored under each id (the last
\* of the list with that id)
CommentMap(list) ==
    [id \in {list[i].id : i \in 1..Len(list)} |->
        list[CHOOSE i \in 1..Len(list) :
                 list[i].id = id /\ \A j \in (i + 1)..Len(list) : list[j].id # id]]

\* the sequences that hold each element of a finite set once: the orders a
\* range over a Go map can visit the entries in
Orders(set) ==
    {o \in [1..Cardinality(set) -> set] :
        \A i, j \in 1..Cardinality(set) : o[i] = o[j] => i = j}

\* the trees buildCommentSubtree can return for a comment: its replies are the
\* comments of the map whose ParentID is the comment's id, in the order the
\* range over the map meets them, each with a subtree built the same way
RECURSIVE buildCommentSubtree(_, _)
buildCommentSubtreeShallow(comment, commentMap) ==
    LET replies == {commentMap[id] : id \in {k \in DOMAIN commentMap :
                        /\ commentMap[k].parent_id # NoParent
                        /\ commentMap[k].parent_id = comment.id}}
    IN {[Comment |-> comment,
         Replies |-> [i \in 1..Cardinality(replies) |-> [Comment |-> o[i], Replies |-> <<>>]]]
          : o \in Orders(replies)}
buildCommentSubtree(comment, commentMap) ==
    LET replies == {commentMap[id] : id \in {k \in DOMAIN commentMap :
                        /\ commentMap[k].parent_id # NoParent
                        /\ commentMap[k].parent_id = comment.id}}
        n == Cardinality(replies)
        subtrees == [c \in replies |-> buildCommentSubtree(c, commentMap)]
    IN {[Comment |-> comment, Replies |-> r] :
          r \in UNION {{q \in [1..n -> UNION {subtrees[c] : c \in replies}] :
                           \A i \in 1..n : q[i] \in subtrees[o[i]]}
                       : o \in Orders(replies)}}

RECURSIVE Reverse(_)
Reverse(list) == IF list = <<>> THEN <<>> ELSE Reverse(Tail(list)) \o <<Head(list)>>

\* the forests buildCommentTree can return: one tree per top-level comment
\* (ParentID == nil), in the order of the list
ForestsOf(topLevelComments, commentMap) ==
    LET n == Len(topLevelComments)
        subtrees == [i \in 1..n |-> buildCommentSubtree(topLevelComments[i], commentMap)]
    IN {r \in [1..n -> UNION {subtrees[i] : i \in 1..n}] :
            \A i \in 1..n : r[i] \in subtrees[i]}

buildCommentTreeFirstTwice(list) ==
    {IF forest = <<>> THEN forest ELSE forest \o <<forest[1]>> :
        forest \in ForestsOf(SelectSeq(list, LAMBDA c : c.parent_id = NoParent),
                             CommentMap(list))}
buildCommentTreeNewestFirst(list) ==
    ForestsOf(Reverse(SelectSeq(list, LAMBDA c : c.parent_id = NoParent)), CommentMap(list))
buildCommentTreeOrphansOnTop(list) ==
    ForestsOf(SelectSeq(list, LAMBDA c : c.parent_id \notin DOMAIN CommentMap(list)),
              CommentMap(list))
buildCommentTree(list) ==
    ForestsOf(SelectSeq(list, LAMBDA c : c.parent_id = NoParent), CommentMap(list))

\* the replies below a tree, at every depth
RECURSIVE countCommentsInTree(_)
countCommentsInTreeDirect(tree) == Len(tree.Replies)
countCommentsInTree(tree) ==
    LET RECURSIVE Sum(_)
        Sum(replies) ==
            IF replies = <<>> THEN 0
            ELSE 1 + countCommentsInTree(Head(replies)) + Sum(Tail(replies))
    IN Sum(tree.Replies)

RECURSIVE countTotalComments(_)
countTotalComments(trees) ==
    IF trees = <<>> THEN 0
    ELSE 1 + countCommentsInTree(Head(trees)) + countTotalComments(Tail(trees))

\* buildCommentTree is called on allComments and returns
BuildCommentTree ==
    /\ ~commentTrees.built
    /\ \E forest \in buildCommentTree(allComments) : commentTrees' = Built(forest)
    /\ UNCHANGED <<tables, pc, req, existingLike, hist, allComments, server>>

\* ------------------------------------------------------------ users
DeleteUserAndEveryVote(userID) ==
    LET userPosts == {p.id : p \in {q \in posts : q.user_id = userID}}
    IN [users |-> [u \in DOMAIN users \ {userID} |-> users[u]],
        sessions |-> {x \in sessions : x.user_id # userID},
        posts |-> {p \in posts : p.user_id # userID},
        comments |-> {c \in comments : ~(c.post_id \in userPosts \/ c.user_id = userID)},
        post_likes |-> EmptyBag,
        comment_likes |-> EmptyBag]
\* DeleteUser: the six DELETEs of its transaction, in order, each on what the
\* one before left
DeleteUser(userID) ==
    LET userPosts == {p.id : p \in {q \in posts : q.user_id = userID}}
        onUserPosts == {c.id : c \in {d \in comments : d.post_id \in userPosts}}
        cl1 == Without(comment_likes,
                   {r \in BagToSet(comment_likes) :
                        r.comment_id \in onUserPosts \/ r.user_id = userID})
        pl2 == Without(post_likes,
                   {r \in BagToSet(post_likes) :
                        r.post_id \in userPosts \/ r.user_id = userID})
        cm3 == {c \in comments : ~(c.post_id \in userPosts \/ c.user_id = userID)}
        po4 == {p \in posts : p.user_id # userID}
        se5 == {x \in sessions : x.user_id # userID}
        us6 == [u \in DOMAIN users \ {userID} |-> users[u]]
    IN [users |-> us6, sessions |-> se5, posts |-> po4, comments |-> cm3,
        post_likes |-> pl2, comment_likes |-> cl1]

Deleted(userID) ==
    LET d == DeleteUser(userID) IN
    /\ users' = d.users
    /\ sessions' = d.sessions
    /\ posts' = d.posts
    /\ comments' = d.comments
    /\ post_likes' = d.post_likes
    /\ comment_likes' = d.comment_likes
    /\ UNCHANGED <<sqlite_sequence, pc, req, existingLike, hist, page, server>>

\* POST /delete-profile: the user of the session deletes their own account,
\* once the confirmation field repeats their username
DeleteProfileHandler(cookie, confirmed) ==
    LET currentUser == GetCurrentUser(cookie) IN
    IF currentUser = NoUser \/ ~confirmed
    THEN UNCHANGED vars
    ELSE Deleted(currentUser)

\* POST /admin/delete behind AdminMiddleware
AdminDeleteUserHandler(cookie, userID, confirmed) ==
    LET currentUser == GetCurrentUser(cookie) IN
    IF \/ currentUser = NoUser
       \/ ~IsAdmin(currentUser)
       \/ userID \notin DOMAIN users
       \/ IsAdmin(userID)
       \/ userID = currentUser
       \/ ~confirmed
    THEN UNCHANGED vars
    ELSE Deleted(userID)

\* SuspendUser's error: result.RowsAffected() == 0, "user not found or cannot
\* suspend admin user"
SuspendUserErr(userID) ==
    {u \in DOMAIN users : u = userID /\ users[u].role # "admin"} = {}

SuspendUserAnyRole(userID) ==
    [u \in DOMAIN users |->
        IF u = userID THEN [users[u] EXCEPT !.status = "suspended"] ELSE users[u]]
\* UPDATE users SET status = 'suspended' WHERE id = ? AND role != 'admin'
SuspendUser(userID) ==
    [u \in DOMAIN users |->
        IF u = userID /\ users[u].role # "admin"
        THEN [users[u] EXCEPT !.status = "suspended"] ELSE users[u]]

\* UPDATE users SET status = 'active' WHERE id = ?
UnsuspendUser(userID) ==
    [u \in DOMAIN users |->
        IF u = userID THEN [users[u] EXCEPT !.status = "active"] ELSE users[u]]

\* AdminMiddleware: what it answers itself, or "next" when it calls the handler
AdminMiddleware(cookie) ==
    LET user == GetCurrentUser(cookie) IN
    IF user = NoUser THEN "303 /login"
    ELSE IF ~IsAdmin(user) THEN "403 Forbidden"
    ELSE "next"

AdminSuspendUserHandlerAnyUser(cookie, userID, action) ==
    LET currentUser == GetCurrentUser(cookie) IN
    IF currentUser = NoUser \/ action \notin {"suspend", "unsuspend"}
    THEN UNCHANGED vars
    ELSE /\ users' = [u \in DOMAIN users |->
                        IF u = userID /\ users[u].role # "admin"
                        THEN [users[u] EXCEPT
                                 !.status = IF action = "suspend" THEN "suspended"
                                            ELSE "active"]
                        ELSE users[u]]
         /\ UNCHANGED <<sessions, posts, comments, post_likes, comment_likes,
                        sqlite_sequence, pc, req, existingLike, hist, page, server>>
\* POST /admin/suspend behind AdminMiddleware
AdminSuspendUserHandler(cookie, userID, action) ==
    LET currentUser == GetCurrentUser(cookie) IN
    IF currentUser = NoUser \/ ~IsAdmin(currentUser) \/ action \notin {"suspend", "unsuspend"}
    THEN UNCHANGED vars
    ELSE /\ users' = IF action = "suspend" THEN SuspendUser(userID)
                     ELSE UnsuspendUser(userID)
         /\ UNCHANGED <<sessions, posts, comments, post_likes, comment_likes,
                        sqlite_sequence, pc, req, existingLike, hist, page, server>>

\* ------------------------------------------------------------ SpecForum
\* A forum of ForumPosts posts, by the registered users in turn; votes on posts
\* (one vote request at a time, other requests between its two statements),
\* comments, suspension and account deletion.
InitForum ==
    /\ users = InitUsers
    /\ sessions = InitSessions
    /\ posts = {[id |-> i, title |-> <<i>>, user_id |-> 1 + (i % MaxUsers),
                 category_id |-> 1 + ((i - 1) % NumCategories), created_at |-> i]
                 : i \in 1..ForumPosts}
    /\ comments = {}
    /\ post_likes = EmptyBag
    /\ comment_likes = EmptyBag
    /\ sqlite_sequence = [users |-> MaxUsers, posts |-> ForumPosts, comments |-> 0]
    /\ InitIdle

NextForum ==
    \/ \E cookie \in Cookies, postID \in 1..ForumPosts, action \in Actions :
          LikePostHandlerSelect(1, cookie, postID, action, FALSE)
    \/ LikePostHandlerExec(1, FALSE)
    \/ \E cookie \in Cookies, postID \in 1..ForumPosts, content \in {"", "text"} :
          CreateCommentHandler(cookie, postID, NoParent, content, ForumPosts + 1)
    \/ \E cookie \in Cookies, confirmed \in BOOLEAN :
          DeleteProfileHandler(cookie, confirmed)
    \/ \E cookie \in Cookies, userID \in UserIDs, confirmed \in BOOLEAN :
          AdminDeleteUserHandler(cookie, userID, confirmed)
    \/ \E cookie \in Cookies, userID \in UserIDs, action \in {"suspend", "unsuspend", ""} :
          AdminSuspendUserHandler(cookie, userID, action)

SpecForum == InitForum /\ [][NextForum]_vars

\* ------------------------------------------------------------ SpecSort
\* The forum's posts with any titles and creation times and any votes on them;
\* comments are added and users suspended while the sorted listings are read.
Titles == {<<66>>, <<97>>, <<66, 97>>}      \* "B", "a", "Ba"
VoteChoices == {"none", "like", "dislike"}

\* the post_likes rows of a choice of vote per (user, post)
PostLikesOf(choice) ==
    SetToBag({[user_id |-> x[1], post_id |-> x[2], is_like |-> (choice[x] = "like")]
                : x \in {y \in DOMAIN choice : choice[y] # "none"}})

InitSort ==
    /\ users = InitUsers
    /\ sessions = InitSessions
    /\ \E title \in [1..ForumPosts -> Titles], created \in [1..ForumPosts -> 1..2] :
          /\ \A i, j \in 1..ForumPosts : i <= j => created[i] <= created[j]
          /\ posts = {[id |-> i, title |-> title[i], user_id |-> 1 + (i % MaxUsers),
                       category_id |-> 1 + ((i - 1) % NumCategories),
                       created_at |-> created[i]] : i \in 1..ForumPosts}
    /\ comments = {}
    /\ \E choice \in [UserIDs \X (1..ForumPosts) -> VoteChoices] :
          post_likes = PostLikesOf(choice)
    /\ comment_likes = EmptyBag
    /\ sqlite_sequence = [users |-> MaxUsers, posts |-> ForumPosts, comments |-> 0]
    /\ InitIdle

NextSort ==
    \/ \E cookie \in Cookies, postID \in 1..ForumPosts, content \in {"", "text"} :
          CreateCommentHandler(cookie, postID, NoParent, content, ForumPosts + 1)
    \/ \E cookie \in Cookies, userID \in UserIDs, action \in {"suspend", "unsuspend", ""} :
          AdminSuspendUserHandler(cookie, userID, action)

SpecSort == InitSort /\ [][NextSort]_vars

\* ------------------------------------------------------------ SpecModerate
\* A forum with a discussion in it: a comment of user 1 on post 1, a comment of
\* user 2 on post 2 and a reply of user 1 to it, with any votes on the posts and
\* on the first two comments.  Users are suspended and accounts deleted.
VotedComments == 2   \* comments of the discussion that carry votes

\* the comment_likes rows of a choice of vote per (user, comment)
CommentLikesOf(choice) ==
    SetToBag({[user_id |-> x[1], comment_id |-> x[2], is_like |-> (choice[x] = "like")]
                : x \in {y \in DOMAIN choice : choice[y] # "none"}})

InitModerate ==
    /\ users = InitUsers
    /\ sessions = InitSessions
    /\ posts = {[id |-> i, title |-> <<i>>, user_id |-> 1 + (i % MaxUsers),
                 category_id |-> 1 + ((i - 1) % NumCategories), created_at |-> i]
                 : i \in 1..ForumPosts}
    /\ \E second \in 1..2 :
          comments = {[id |-> 1, user_id |-> 1, post_id |-> 1, parent_id |-> NoParent,
                       created_at |-> 1],
                      [id |-> 2, user_id |-> 2, post_id |-> 2, parent_id |-> NoParent,
                       created_at |-> second],
                      [id |-> 3, user_id |-> 1, post_id |-> 2, parent_id |-> 2,
                       created_at |-> 2]}
    /\ \E choice \in [UserIDs \X (1..ForumPosts) -> VoteChoices] :
          post_likes = PostLikesOf(choice)
    /\ \E choice \in [UserIDs \X (1..VotedComments) -> VoteChoices] :
          comment_likes = CommentLikesOf(choice)
    /\ sqlite_sequence = [users |-> MaxUsers, posts |-> ForumPosts, comments |-> 3]
    /\ InitIdle

NextModerate ==
    \/ \E cookie \in Cookies, userID \in UserIDs, action \in {"suspend", "unsuspend", ""} :
          AdminSuspendUserHandler(cookie, userID, action)
    \/ \E cookie \in Cookies, confirmed \in BOOLEAN :
          DeleteProfileHandler(cookie, confirmed)
    \/ \E cookie \in Cookies, userID \in UserIDs, confirmed \in BOOLEAN :
          AdminDeleteUserHandler(cookie, userID, confirmed)

SpecModerate == InitModerate /\ [][NextModerate]_vars

\* ------------------------------------------------------------ SpecTree
\* buildCommentTree on every list of up to TreeComments comments with distinct
\* ids: each comment top-level, a reply to an id of the range, or a reply to an
\* id no comment has.
TreeIDs == 1..TreeComments
TreeParents == {NoParent} \cup TreeIDs \cup {TreeComments + 1}
CommentLists ==
    UNION {{list \in [1..n -> [id : TreeIDs, parent_id : TreeParents]] :
               \A i, j \in 1..n : list[i].id = list[j].id => i = j}
           : n \in 0..TreeComments}

InitTree ==
    /\ users = InitUsers
    /\ sessions = InitSessions
    /\ posts = {}
    /\ comments = {}
    /\ post_likes = EmptyBag
    /\ comment_likes = EmptyBag
    /\ sqlite_sequence = [users |-> MaxUsers, posts |-> 0, comments |-> 0]
    /\ pc = [p \in Procs |-> "idle"]
    /\ req = [p \in Procs |-> NoReq]
    /\ existingLike = [p \in Procs |-> NoRows]
    /\ hist = NoHist
    /\ allComments \in CommentLists
    /\ commentTrees = NotBuilt
    /\ clock = 0
    /\ tx = NoTx
    /\ conn = [c \in Conns |-> NoRequest]

NextTree == BuildCommentTree

SpecTree == InitTree /\ [][NextTree]_vars

\* ------------------------------------------------------------ SpecDelete
\* DeleteUser statement by statement: the transaction's statements see and
\* change the transaction's own view of the tables, which Commit publishes
\* and Rollback (deferred, so it runs on every error return) discards.  A
\* store that may fail any statement, the Begin and the Commit.

\* the six tables DeleteUser writes, as the database holds them
Store ==
    [users |-> users, sessions |-> sessions, posts |-> posts, comments |-> comments,
     post_likes |-> post_likes, comment_likes |-> comment_likes]

\* the k-th tx.Exec of DeleteUser, on the view s of the tables
DeleteUserExec(k, s, userID) ==
    LET userPosts == {p.id : p \in {q \in s.posts : q.user_id = userID}}
        onUserPosts == {c.id : c \in {d \in s.comments : d.post_id \in userPosts}}
    IN CASE k = 1 -> [s EXCEPT !.comment_likes =
                         Without(@, {r \in BagToSet(s.comment_likes) :
                                        r.comment_id \in onUserPosts \/ r.user_id = userID})]
         [] k = 2 -> [s EXCEPT !.post_likes =
                         Without(@, {r \in BagToSet(s.post_likes) :
                                        r.post_id \in userPosts \/ r.user_id = userID})]
         [] k = 3 -> [s EXCEPT !.comments =
                         {c \in @ : ~(c.post_id \in userPosts \/ c.user_id = userID)}]
         [] k = 4 -> [s EXCEPT !.posts = {p \in @ : p.user_id # userID}]
         [] k = 5 -> [s EXCEPT !.sessions = {x \in @ : x.user_id # userID}]
         [] k = 6 -> [s EXCEPT !.users = [u \in DOMAIN @ \ {userID} |-> @[u]]]

\* a transaction that is over: how it ended, the statements it had run, the
\* error DeleteUser returned and
\* the status DeleteProfileHandler answered with
Ended(state, userID, step, err) ==
    [state |-> state, userID |-> userID, step |-> step, err |-> err,
     status |-> IF err THEN 500 ELSE 303]

\* the tables take the values of the view s
Publish(s) ==
    /\ users' = s.users
    /\ sessions' = s.sessions
    /\ posts' = s.posts
    /\ comments' = s.comments
    /\ post_likes' = s.post_likes
    /\ comment_likes' = s.comment_likes

\* what the open transaction's next statement reads: the database, until its
\* first statement; from then on its own view
View == IF tx.step = 0 THEN Store ELSE tx.work

\* POST /delete-profile up to db.Begin(): the session's user, the confirmation
DeleteProfileHandlerBegin(cookie, confirmed, fault) ==
    LET currentUser == GetCurrentUser(cookie) IN
    /\ tx.state # "open"
    /\ IF currentUser = NoUser \/ ~confirmed
       THEN UNCHANGED vars
       ELSE /\ tx' = IF fault THEN Ended("not begun", currentUser, 0, TRUE)
                     ELSE [state |-> "open", userID |-> currentUser, step |-> 0,
                           work |-> <<>>]
            /\ UNCHANGED <<tables, pc, req, existingLike, hist, page, clock, conn>>

\* the next tx.Exec of the open transaction; an error returns, and the
\* deferred tx.Rollback() runs
DeleteUserStepAutocommit(fault) ==
    /\ tx.state = "open"
    /\ tx.step < 6
    /\ IF fault
       THEN /\ tx' = Ended("rolled back", tx.userID, tx.step, TRUE)
            /\ UNCHANGED <<tables, pc, req, existingLike, hist, page, clock, conn>>
       ELSE /\ tx' = [tx EXCEPT !.step = @ + 1,
                                !.work = DeleteUserExec(tx.step + 1, View, tx.userID)]
            /\ Publish(DeleteUserExec(tx.step + 1, View, tx.userID))
            /\ UNCHANGED <<sqlite_sequence, pc, req, existingLike, hist, page, clock, conn>>
DeleteUserStep(fault) ==
    /\ tx.state = "open"
    /\ tx.step < 6
    /\ tx' = IF fault THEN Ended("rolled back", tx.userID, tx.step, TRUE)
             ELSE [tx EXCEPT !.step = @ + 1,
                             !.work = DeleteUserExec(tx.step + 1, View, tx.userID)]
    /\ UNCHANGED <<tables, pc, req, existingLike, hist, page, clock, conn>>

\* tx.Commit(), and the handler's answer
DeleteUserCommit(fault) ==
    /\ tx.state = "open"
    /\ tx.step = 6
    /\ IF fault
       THEN /\ tx' = Ended("rolled back", tx.userID, tx.step, TRUE)
            /\ UNCHANGED <<tables, pc, req, existingLike, hist, page, clock, conn>>
       ELSE /\ tx' = Ended("committed", tx.userID, tx.step, FALSE)
            /\ Publish(tx.work)
            /\ UNCHANGED <<sqlite_sequence, pc, req, existingLike, hist, page, clock, conn>>

\* the transaction holds the database's write lock from its first statement
WriteLocked == tx.state = "open" /\ tx.step > 0

InitDelete ==
    /\ users = InitUsers
    /\ sessions = InitSessions
    /\ posts = {[id |-> i, title |-> <<i>>, user_id |-> 1 + (i % MaxUsers),
                 category_id |-> 1 + ((i - 1) % NumCategories), created_at |-> i]
                 : i \in 1..ForumPosts}
    /\ \E second \in 1..2 :
          comments = {[id |-> 1, user_id |-> 1, post_id |-> 1, parent_id |-> NoParent,
                       created_at |-> 1],
                      [id |-> 2, user_id |-> 2, post_id |-> 2, parent_id |-> NoParent,
                       created_at |-> second],
                      [id |-> 3, user_id |-> 1, post_id |-> 2, parent_id |-> 2,
                       created_at |-> 2]}
    /\ \E isLike \in BOOLEAN :
          /\ post_likes = SetToBag({[user_id |-> u, post_id |-> i, is_like |-> isLike]
                                      : u \in UserIDs, i \in 1..ForumPosts})
          /\ comment_likes = SetToBag({[user_id |-> u, comment_id |-> i, is_like |-> isLike]
                                         : u \in UserIDs, i \in 1..VotedComments})
    /\ sqlite_sequence = [users |-> MaxUsers, posts |-> ForumPosts, comments |-> 3]
    /\ InitIdle

NextDelete ==
    \/ \E cookie \in Cookies, confirmed \in BOOLEAN, fault \in BOOLEAN :
          DeleteProfileHandlerBegin(cookie, confirmed, fault)
    \/ \E fault \in BOOLEAN : DeleteUserStep(fault)
    \/ \E fault \in BOOLEAN : DeleteUserCommit(fault)
    \/ /\ ~WriteLocked
       /\ \E cookie \in Cookies, userID \in UserIDs, action \in {"suspend", "unsuspend"} :
             AdminSuspendUserHandler(cookie, userID, action)

SpecDelete == InitDelete /\ [][NextDelete]_vars

\* ------------------------------------------------------------ SpecCreate
\* A forum with one post, where the users write posts and comments (any post
\* id and parent id in the form) while the admin suspends and unsuspends them.
MaxPosts == 2        \* post ids AUTOINCREMENT gives out in SpecCreate

\* POST /create-post: CreatePost's INSERT, with the id AUTOINCREMENT gives and
\* created_at the CURRENT_TIMESTAMP of the call (now), which does not run back
CreatePostHandler(cookie, title, content, categoryID, now) ==
    /\ sqlite_sequence.posts < MaxPosts
    /\ \A p \in posts : p.created_at <= now
    /\ LET currentUser == GetCurrentUser(cookie) IN
       IF currentUser = NoUser \/ title = <<>> \/ content = "" \/ categoryID <= 0
       THEN UNCHANGED vars
       ELSE /\ posts' = posts \cup
                   {[id |-> sqlite_sequence.posts + 1, title |-> title,
                     user_id |-> currentUser, category_id |-> categoryID,
                     created_at |-> now]}
            /\ sqlite_sequence' = [sqlite_sequence EXCEPT !.posts = @ + 1]
            /\ UNCHANGED <<users, sessions, comments, post_likes, comment_likes,
                           pc, req, existingLike, hist, page, server>>

InitCreate ==
    /\ users = InitUsers
    /\ sessions = InitSessions
    /\ posts = {[id |-> 1, title |-> <<66>>, user_id |-> MaxUsers, category_id |-> 1,
                 created_at |-> 1]}
    /\ comments = {}
    /\ post_likes = EmptyBag
    /\ comment_likes = EmptyBag
    /\ sqlite_sequence = [users |-> MaxUsers, posts |-> 1, comments |-> 0]
    /\ InitIdle

NextCreate ==
    \/ \E cookie \in Cookies, title \in {<<>>, <<97>>}, content \in {"", "text"},
          categoryID \in {NotANumber, NoCategory} \cup Categories :
          CreatePostHandler(cookie, title, content, categoryID, 2)
    \/ \E cookie \in Cookies, postID \in {NotANumber} \cup 1..(MaxPosts + 1),
          parentID \in {NotANumber, NoParent} \cup 1..(MaxComments + 1),
          content \in {"", "text"} :
          CreateCommentHandler(cookie, postID, parentID, content, 3)
    \/ \E cookie \in Cookies, userID \in UserIDs, action \in {"suspend", "unsuspend"} :
          AdminSuspendUserHandler(cookie, userID, action)

SpecCreate == InitCreate /\ [][NextCreate]_vars

\* ------------------------------------------------------------ SpecSweep
\* Sessions of logins at different times; the clock advances, the hourly
\* goroutine of main sweeps the expired sessions at any moment, and vote
\* requests arrive with the session cookies.
MaxClock == 3        \* the clock runs from 0 to MaxClock

\* DELETE FROM sessions WHERE expires_at < ? (with time.Now())
CleanExpiredSessions ==
    /\ sessions' = {s \in sessions : ~(s.expires_at < clock)}
    /\ UNCHANGED <<users, posts, comments, post_likes, comment_likes, sqlite_sequence,
                   pc, req, existingLike, hist, page, server>>

\* time passes
Tick ==
    /\ clock < MaxClock
    /\ clock' = clock + 1
    /\ UNCHANGED <<tables, pc, req, existingLike, hist, page, tx, conn>>

InitSweep ==
    /\ users = InitUsers
    /\ \E life \in [UserIDs -> 1..(MaxClock - 1)] :
          sessions = {[uuid |-> u, user_id |-> u, expires_at |-> life[u]] : u \in UserIDs}
    /\ posts = {[id |-> i, title |-> <<i>>, user_id |-> MaxUsers, category_id |-> 1,
                 created_at |-> i] : i \in 1..RacePosts}
    /\ comments = {}
    /\ post_likes = EmptyBag
    /\ comment_likes = EmptyBag
    /\ sqlite_sequence = [users |-> MaxUsers, posts |-> RacePosts, comments |-> 0]
    /\ InitIdle

NextSweep ==
    \/ Tick
    \/ CleanExpiredSessions
    \/ \E cookie \in Cookies, postID \in 1..RacePosts, action \in Actions :
          LikePostHandlerSelect(1, cookie, postID, action, FALSE)
    \/ LikePostHandlerExec(1, FALSE)

SpecSweep == InitSweep /\ [][NextSweep]_vars

\* ------------------------------------------------------------ SpecRecover
\* The server of main behind recoveryMiddleware(loggingMiddleware(mux)), with
\* the development routes /test-panic and /test-500 registered: requests arrive
\* on NumConns connections, each served by its own goroutine.
MaxPanics == 1       \* requests to /test-panic that one connection carries
Routes == {"/", "/nonexistent-page", "/test-500", "/test-panic"}

\* what is done to connection c
Conn(c, phase, route, status, body, panics) ==
    /\ conn' = [conn EXCEPT ![c] = [phase |-> phase, route |-> route, status |-> status,
                                    body |-> body, panics |-> panics]]
    /\ UNCHANGED <<tables, pc, req, existingLike, hist, page, clock, tx>>

\* a request for the route arrives on the connection, which carries no
\* unanswered request
ServeHTTP(c, route) ==
    /\ conn[c].phase \in {"idle", "done"}
    /\ route = "/test-panic" => conn[c].panics < MaxPanics
    /\ Conn(c, "handling", route, 0, "", conn[c].panics)

\* mux.ServeHTTP: the handler of the route runs; the handler of /test-panic
\* panics before it writes anything
mux(c) ==
    /\ conn[c].phase = "handling"
    /\ CASE conn[c].route = "/test-panic" ->
                Conn(c, "panicking", conn[c].route, 0, "", conn[c].panics)
         [] conn[c].route = "/test-500" ->
                Conn(c, "done", conn[c].route, 500, "Test 500 error", conn[c].panics)
         [] conn[c].route = "/" ->
                Conn(c, "done", conn[c].route, 200, "index.html", conn[c].panics)
         [] OTHER ->
                Conn(c, "done", conn[c].route, 404, "404.html", conn[c].panics)

\* the deferred function of recoveryMiddleware: recover(), then the 500 page,
\* or the plain-text 500 when renderError500 fails to load the template
recoveryMiddlewareOff(c, templateFails) ==
    /\ conn[c].phase = "panicking"
    /\ Conn(c, "done", conn[c].route, 0, "", conn[c].panics + 1)
recoveryMiddleware(c, templateFails) ==
    /\ conn[c].phase = "panicking"
    /\ Conn(c, "done", conn[c].route, 500,
            IF templateFails THEN "Internal Server Error" ELSE "500.html",
            conn[c].panics + 1)

InitRecover == InitToggle

NextRecover ==
    \/ \E c \in Conns, route \in Routes : ServeHTTP(c, route)
    \/ \E c \in Conns : mux(c)
    \/ \E c \in Conns, templateFails \in BOOLEAN : recoveryMiddleware(c, templateFails)

SpecRecover == InitRecover /\ [][NextRecover]_vars

\* each request's goroutine keeps running: the handler returns or panics, and
\* the deferred function runs when it panics
SpecRecoverLive ==
    /\ SpecRecover
    /\ \A c \in Conns : WF_vars(mux(c))
    /\ \A c \in Conns : WF_vars(\E templateFails \in BOOLEAN : recoveryMiddleware(c, templateFails))

\* ------------------------------------------------------------ vote states
\* one vote row of a pair with the given polarity, as a one-row bag
PairRow(pair, isLike) ==
    IF pair[1] = "post"
    THEN [user_id |-> pair[2], post_id |-> pair[3], is_like |-> isLike]
    ELSE [user_id |-> pair[2], comment_id |-> pair[3], is_like |-> isLike]
OneRow(pair, isLike) == SetToBag({PairRow(pair, isLike)})

\* the toggle of a pair run alone on the pair's rows
RunOne(pair, t, isLike) ==
    IF pair[1] = "post" THEN LikePost(t, pair[2], pair[3], isLike)
    ELSE LikeComment(t, pair[2], pair[3], isLike)

\* the calls of a sequence run one after another: the rows left, and whether any failed
RECURSIVE RunSerial(_, _, _)
RunSerial(pair, t, calls) ==
    IF calls = <<>> THEN [t |-> t, err |-> FALSE]
    ELSE LET r == RunOne(pair, t, Head(calls))
             rest == RunSerial(pair, r.t, Tail(calls))
         IN [t |-> rest.t, err |-> r.err \/ rest.err]

Perms(n) == {f \in [1..n -> 1..n] : \A i, j \in 1..n : f[i] = f[j] => i = j}

\* what the calls can leave when they run one after another in some order
SerialOutcomes(pair, t, calls) ==
    {RunSerial(pair, t, [i \in 1..Len(calls) |-> calls[f[i]]]) : f \in Perms(Len(calls))}

\* the followed calls have all returned
HistSettled == hist.tracked /\ hist.calls # <<>> /\ InFlightOn(hist.pair) = {}

\* ------------------------------------------------------------ claims, SpecToggle
\* C1: concurrent toggle calls by one user on one target all succeed and leave
\* the vote state that some serial order of the same calls leaves.
C1_AtomicPerCall ==
    (HistSettled /\ hist.overlap) =>
        /\ ~hist.failed
        /\ \E o \in SerialOutcomes(hist.pair, hist.base, hist.calls) :
              ~o.err /\ PairBag(hist.pair) = o.t

\* C2: at most one vote row per (user, post) and per (user, comment), in every
\* reachable state of any interleaving of toggle calls.
C2_OneRowPerPair ==
    /\ \A r \in BagToSet(post_likes) :
          BagCardinality(Only(post_likes, PostLikeRows(post_likes, r.user_id, r.post_id))) = 1
    /\ \A r \in BagToSet(comment_likes) :
          BagCardinality(Only(comment_likes,
              CommentLikeRows(comment_likes, r.user_id, r.comment_id))) = 1

\* two calls raced to insert the row of one pair, and one row is there
C2_Witness ==
    /\ HistSettled /\ hist.overlap /\ hist.base = EmptyBag
    /\ BagCardinality(PairBag(hist.pair)) = 1

\* C3: from None (no row of the pair), a toggle inserts exactly one row, with
\* polarity true for like and false for dislike, on posts and on comments.
C3_InsertFromNone ==
    \A isLike \in BOOLEAN :
        (HistSettled /\ ~hist.overlap /\ hist.base = EmptyBag /\ hist.calls = <<isLike>>) =>
            ~hist.failed /\ PairBag(hist.pair) = OneRow(hist.pair, isLike)

C3_Witness ==
    /\ HistSettled /\ ~hist.overlap /\ hist.base = EmptyBag /\ hist.calls = <<FALSE>>
    /\ hist.pair[1] = "comment"
    /\ comment_likes = OneRow(hist.pair, FALSE)

\* C4: a toggle with the recorded polarity deletes the row; so toggle(p) then
\* toggle(p) from None ends in None, with no row, on posts and on comments.
C4_SamePolarityDeletes ==
    \A isLike \in BOOLEAN :
        (HistSettled /\ ~hist.overlap) =>
            /\ (hist.base = OneRow(hist.pair, isLike) /\ hist.calls = <<isLike>>) =>
                  ~hist.failed /\ PairBag(hist.pair) = EmptyBag
            /\ (hist.base = EmptyBag /\ hist.calls = <<isLike, isLike>>) =>
                  ~hist.failed /\ PairBag(hist.pair) = EmptyBag

C4_Witness ==
    /\ HistSettled /\ ~hist.overlap /\ hist.base = EmptyBag /\ hist.calls = <<TRUE, TRUE>>
    /\ hist.stmts = 2
    /\ PairBag(hist.pair) = EmptyBag

\* the rows of a pair in the given tables, and the rows of every other pair
PairBagIn(pl, cl, pair) ==
    IF pair[1] = "post" THEN Only(pl, PostLikeRows(pl, pair[2], pair[3]))
    ELSE Only(cl, CommentLikeRows(cl, pair[2], pair[3]))
OtherRowsIn(pl, cl, pair) ==
    IF pair[1] = "post" THEN <<Without(pl, PostLikeRows(pl, pair[2], pair[3])), cl>>
    ELSE <<pl, Without(cl, CommentLikeRows(cl, pair[2], pair[3]))>>

\* C5: a toggle with the opposite polarity flips the one row in place: one row
\* of the pair is left, with the new polarity, and every other vote is unchanged.
C5_FlipInPlace ==
    [][\A p \in Procs : \A isLike \in BOOLEAN :
          ( /\ pc[p] = "selected" /\ pc'[p] = "idle"
            /\ req[p].isLike = isLike
            /\ existingLike[p] = Scanned(~isLike)
            /\ PairBag(Key(req[p])) = OneRow(Key(req[p]), ~isLike) )
          => /\ PairBagIn(post_likes', comment_likes', Key(req[p]))
                   = OneRow(Key(req[p]), isLike)
             /\ OtherRowsIn(post_likes', comment_likes', Key(req[p]))
                   = OtherRowsIn(post_likes, comment_likes, Key(req[p]))
      ]_vars

\* user A liked, then disliked: one row, polarity false; another user's vote on
\* the same target is there
C5_Witness ==
    /\ HistSettled /\ ~hist.overlap /\ ~hist.failed
    /\ hist.base = EmptyBag /\ hist.calls = <<TRUE, FALSE>>
    /\ PairBag(hist.pair) = OneRow(hist.pair, FALSE)
    /\ hist.pair[1] = "post"
    /\ \E r \in BagToSet(post_likes) : r.user_id # hist.pair[2] /\ r.post_id = hist.pair[3]

\* C6: two calls that both saw None and both insert: the second insert fails on
\* the uniqueness constraint, is retried as an update, and no error is surfaced.
C6_RetryAsUpdate ==
    (HistSettled /\ hist.overlap /\ hist.base = EmptyBag /\ Len(hist.calls) = 2) =>
        /\ ~hist.failed
        /\ PairBag(hist.pair) = OneRow(hist.pair, hist.calls[2])

\* ------------------------------------------------------------ claims, SpecFault
\* C7: a toggle call runs at most one mutating statement; when its SELECT or
\* that statement fails, the caller gets the error and the rows of the pair are
\* as they were before the call.
C7_OneStatementNoPartialState ==
    /\ hist.tracked => hist.stmts <= Len(hist.calls)
    /\ (HistSettled /\ hist.faults > 0) => hist.failed
    /\ (HistSettled /\ ~hist.overlap /\ Len(hist.calls) = 1 /\ hist.failed) =>
           PairBag(hist.pair) = hist.base

\* a dislike of a liked post whose UPDATE the store failed
C7_Witness ==
    /\ HistSettled /\ ~hist.overlap /\ hist.calls = <<FALSE>> /\ hist.failed
    /\ hist.stmts = 1
    /\ hist.base = OneRow(hist.pair, TRUE)
    /\ PairBag(hist.pair) = hist.base

\* ------------------------------------------------------------ claims, SpecForum
Filters == {"", "my-posts", "liked-posts"}
CategoryParams == {NoCategory, NotANumber} \cup Categories

\* every post list a request can be answered with: the home page under each
\* filter and category, each profile page, each post page
AllListings ==
    {HomeHandler(cookie, filter, category) :
        cookie \in Cookies, filter \in Filters, category \in CategoryParams}
    \cup {ProfileHandler(userID) : userID \in UserIDs}
    \cup {ViewPostHandler(postID) : postID \in 1..ForumPosts}

\* the post lists a viewer who is not an admin is answered with
ListingsForNonAdmin ==
    {HomeHandler(cookie, filter, category) :
        cookie \in {c \in Cookies :
                        GetCurrentUser(c) = NoUser \/ ~IsAdmin(GetCurrentUser(c))},
        filter \in Filters, category \in CategoryParams}
    \cup {ProfileHandler(userID) : userID \in UserIDs}

Range(seq) == {seq[i] : i \in 1..Len(seq)}

\* the vote rows on a post with a polarity, counted voter by voter
RECURSIVE VoteRowsOn(_, _, _)
VoteRowsOn(voters, postID, isLike) ==
    IF voters = {} THEN 0
    ELSE LET u == CHOOSE x \in voters : TRUE
         IN CopiesIn([user_id |-> u, post_id |-> postID, is_like |-> isLike], post_likes)
            + VoteRowsOn(voters \ {u}, postID, isLike)

\* the comment rows on a post, counted comment id by comment id
RECURSIVE CommentRowsOn(_, _)
CommentRowsOn(ids, postID) ==
    IF ids = {} THEN 0
    ELSE LET i == CHOOSE x \in ids : TRUE
         IN (IF \E c \in comments : c.id = i /\ c.post_id = postID THEN 1 ELSE 0)
            + CommentRowsOn(ids \ {i}, postID)

\* C8: after any sequence of toggles, comment creations and user deletions, the
\* likes, dislikes and comments counts returned for a post by any listing or by
\* GetPostByID equal the current vote rows of each polarity and the current
\* comment rows of that post.
C8_CountsReflectRows ==
    \A listing \in AllListings : \A v \in Range(listing) :
        /\ v.likes_count = VoteRowsOn(UserIDs, v.id, TRUE)
        /\ v.dislikes_count = VoteRowsOn(UserIDs, v.id, FALSE)
        /\ v.comments_count = CommentRowsOn(1..MaxComments, v.id)

\* a user has been deleted, and a listing returns a post with one like and one comment
C8_Witness ==
    /\ DOMAIN users # UserIDs
    /\ \E v \in Range(GetPostsWithSuspendedFilter(FALSE)) :
          v.likes_count = 1 /\ v.dislikes_count = 0 /\ v.comments_count = 1

\* C9: the liked-by(user) listing contains a post if and only if the user's
\* current vote state on the post is Liked: not when the user dislikes it, and
\* not when the like was toggled off or flipped.
C9_LikedListingIffLiked ==
    \A userID \in UserIDs : \A p \in posts :
        (\E v \in Range(GetLikedPostsByUser(userID)) : v.id = p.id)
            <=> PairBag(<<"post", userID, p.id>>) = OneRow(<<"post", userID, p.id>>, TRUE)

\* a user liked a post and then flipped the vote: the post is out of the user's
\* liked listing, which still holds another post the user likes
C9_Witness ==
    /\ HistSettled /\ hist.calls = <<TRUE, FALSE>> /\ hist.base = EmptyBag
    /\ PairBag(hist.pair) = OneRow(hist.pair, FALSE)
    /\ LET liked == {v.id : v \in Range(GetLikedPostsByUser(hist.pair[2]))}
       IN hist.pair[3] \notin liked /\ liked # {}

\* C10: no post list answered to a viewer who is not an admin holds a post whose
\* author is suspended: all posts, by category, by author and liked-by alike.
C10_NoSuspendedAuthorListed ==
    \A listing \in ListingsForNonAdmin : \A v \in Range(listing) :
        ~IsSuspended(v.user_id)

SortKeys == {"date", "likes", "comments", "title", "", "views"}
SortOrders == {"asc", "desc", "ASC", ""}

\* every result a sorted post listing can return for a sort key and order
SortedListings(sortBy, sortOrder) ==
    GetPostsWithSorting(sortBy, sortOrder)
    \cup UNION {GetPostsByCategoryWithSorting(c, sortBy, sortOrder) : c \in Categories}
    \cup UNION {GetPostsByUserWithSorting(u, sortBy, sortOrder) : u \in UserIDs}
    \cup UNION {GetLikedPostsByUserWithSorting(u, sortBy, sortOrder) : u \in UserIDs}
    \cup UNION {GetPostsWithSuspendedFilterAndSorting(b, sortBy, sortOrder) : b \in BOOLEAN}

\* byte-wise order of titles: a is a prefix of b, or smaller at the first byte
\* they differ in
TitleLeq(a, b) ==
    \/ Len(a) <= Len(b) /\ \A k \in 1..Len(a) : a[k] = b[k]
    \/ \E k \in 1..Len(a) :
          /\ k <= Len(b) /\ a[k] < b[k]
          /\ \A m \in 1..(k - 1) : a[m] = b[m]

\* v may stand before w in a listing in non-decreasing order of the key
KeyLeq(key, v, w) ==
    CASE key = "title" -> TitleLeq(v.title, w.title)
      [] key = "likes" -> v.likes_count <= w.likes_count
      [] key = "comments" -> v.comments_count <= w.comments_count
      [] OTHER -> v.created_at <= w.created_at

\* C12: a sorted post listing is in the order of the requested key (date,
\* likes, comments, title) and direction; a key that is none of the four sorts
\* by date, an order other than "asc" sorts descending.
C12_SortedByRequestedKey ==
    \A sortBy \in SortKeys, sortOrder \in SortOrders :
        LET key == IF sortBy \in {"date", "likes", "comments", "title"} THEN sortBy
                   ELSE "date"
        IN \A r \in SortedListings(sortBy, sortOrder) :
              \A i \in 1..(Len(r) - 1) :
                  IF sortOrder = "asc" THEN KeyLeq(key, r[i], r[i + 1])
                  ELSE KeyLeq(key, r[i + 1], r[i])

\* a listing by title ascending of two posts, "B" before "Ba", that no other
\* ascending key gives: the first is the later post and has more likes and
\* more comments than the second
C12_Witness ==
    /\ GetPostsWithSorting("title", "asc") # {}
    /\ \E r \in GetPostsWithSorting("title", "asc") :
          /\ Len(r) = ForumPosts
          /\ r[1].title = <<66>> /\ r[2].title = <<66, 97>>
          /\ r[1].created_at > r[2].created_at
          /\ r[1].likes_count > r[2].likes_count
          /\ r[1].comments_count > r[2].comments_count

\* ------------------------------------------------------------ claims, SpecModerate
\* the comment_likes rows on a comment with a polarity, counted voter by voter
RECURSIVE CommentVoteRowsOn(_, _, _)
CommentVoteRowsOn(voters, commentID, isLike) ==
    IF voters = {} THEN 0
    ELSE LET u == CHOOSE x \in voters : TRUE
         IN CopiesIn([user_id |-> u, comment_id |-> commentID, is_like |-> isLike],
                     comment_likes)
            + CommentVoteRowsOn(voters \ {u}, commentID, isLike)

\* C13: the comment listing of a post holds every comment of the post once and
\* no comment of another post, leaves out exactly the comments of suspended
\* authors when includeSuspended is false, is in ascending order of creation
\* time, and gives each comment its current numbers of like and dislike rows.
C13_CommentListing ==
    \A postID \in 1..ForumPosts, includeSuspended \in BOOLEAN :
        \A r \in GetCommentsWithSuspendedFilter(postID, includeSuspended) :
            /\ {v.id : v \in Range(r)} =
                  {c.id : c \in {d \in comments :
                      /\ d.post_id = postID
                      /\ ~(~includeSuspended /\ d.user_id \in DOMAIN users
                             /\ users[d.user_id].status = "suspended")}}
            /\ \A i, j \in 1..Len(r) : r[i].id = r[j].id => i = j
            /\ \A i \in 1..(Len(r) - 1) : r[i].created_at <= r[i + 1].created_at
            /\ \A v \in Range(r) :
                  /\ v.likes_count = CommentVoteRowsOn(UserIDs, v.id, TRUE)
                  /\ v.dislikes_count = CommentVoteRowsOn(UserIDs, v.id, FALSE)

\* user 2 is suspended: their comment on post 2, with a like and a dislike on
\* it, is in the listing with suspended authors and not in the one without,
\* which still has the reply to it
C13_Witness ==
    /\ 2 \in DOMAIN users /\ IsSuspended(2)
    /\ \E r \in GetCommentsWithSuspendedFilter(2, TRUE) :
          /\ Len(r) = 2
          /\ r[1].user_id = 2 /\ r[1].likes_count = 1 /\ r[1].dislikes_count = 1
    /\ \E r \in GetCommentsWithSuspendedFilter(2, FALSE) :
          Len(r) = 1 /\ r[1].parent_id = 2

\* ------------------------------------------------------------ claims, SpecTree
\* every node of a forest, at every depth
RECURSIVE NodesOf(_)
NodesOf(trees) ==
    IF trees = <<>> THEN {}
    ELSE {Head(trees)} \cup NodesOf(Head(trees).Replies) \cup NodesOf(Tail(trees))

\* the comments at the top of a sequence of trees, in order
CommentsOf(trees) == [i \in 1..Len(trees) |-> trees[i].Comment]

InputIDs == {allComments[i].id : i \in 1..Len(allComments)}
Parentless(c) == c.parent_id = NoParent

\* the place of the comment of an id in the input list
PlaceOf(id) == CHOOSE i \in 1..Len(allComments) : allComments[i].id = id

\* C14: the roots of the forest are exactly the comments without a parent
\* reference, in input order, and no such comment is a child of any node.
C14_RootsAreParentless ==
    commentTrees.built =>
        /\ CommentsOf(commentTrees.trees) = SelectSeq(allComments, Parentless)
        /\ \A node \in NodesOf(commentTrees.trees) :
              \A k \in 1..Len(node.Replies) : ~Parentless(node.Replies[k].Comment)

\* a forest of two roots built from a list that starts with a reply
C14_Witness ==
    /\ commentTrees.built
    /\ Len(commentTrees.trees) = 2
    /\ Len(allComments) = TreeComments
    /\ ~Parentless(allComments[1])
    /\ commentTrees.trees[1].Comment.id > commentTrees.trees[2].Comment.id

\* C15: the children of every node of the forest, at every depth, are exactly
\* the input comments whose parent reference is the node's id, each once.
C15_ChildrenAreReplies ==
    commentTrees.built =>
        \A node \in NodesOf(commentTrees.trees) :
            /\ {node.Replies[k].Comment : k \in 1..Len(node.Replies)} =
                  {allComments[i] : i \in {j \in 1..Len(allComments) :
                       allComments[j].parent_id = node.Comment.id}}
            /\ \A k, m \in 1..Len(node.Replies) :
                  node.Replies[k].Comment = node.Replies[m].Comment => k = m

\* a root with two replies, one of which has a reply of its own
C15_Witness ==
    /\ commentTrees.built
    /\ \E node \in NodesOf(commentTrees.trees) :
          /\ Parentless(node.Comment)
          /\ Len(node.Replies) = 2
          /\ \E k \in 1..2 : Len(node.Replies[k].Replies) = 1

\* C16: the children of every node are in the relative order of the input
\* list, and the same input list always builds the same forest.
C16_ChildOrderDeterministic ==
    commentTrees.built =>
        /\ \A node \in NodesOf(commentTrees.trees) :
              \A k, m \in 1..Len(node.Replies) :
                  k < m => PlaceOf(node.Replies[k].Comment.id)
                              < PlaceOf(node.Replies[m].Comment.id)
        /\ Cardinality(buildCommentTree(allComments)) = 1

\* a comment of the input whose parent chain reaches an id that is not in the
\* input, within the given number of steps up
RECURSIVE OrphanedWithin(_, _)
OrphanedWithin(c, steps) ==
    /\ ~Parentless(c)
    /\ \/ c.parent_id \notin InputIDs
       \/ /\ steps > 0
          /\ OrphanedWithin(allComments[PlaceOf(c.parent_id)], steps - 1)

Orphaned(c) == OrphanedWithin(c, Len(allComments))

\* a comment of the input whose parent chain ends at a parentless comment
RECURSIVE RootedWithin(_, _)
RootedWithin(c, steps) ==
    \/ Parentless(c)
    \/ /\ steps > 0
       /\ c.parent_id \in InputIDs
       /\ RootedWithin(allComments[PlaceOf(c.parent_id)], steps - 1)

Rooted(c) == RootedWithin(c, Len(allComments))

\* C17: a comment whose declared parent is not in the input list is nowhere in
\* the forest, nor is any of its descendants, and the builder still returns a
\* forest for the list.
C17_OrphansDropped ==
    /\ buildCommentTree(allComments) # {}
    /\ commentTrees.built =>
          \A i \in 1..Len(allComments) :
              Orphaned(allComments[i]) =>
                  \A node \in NodesOf(commentTrees.trees) :
                      node.Comment.id # allComments[i].id

\* a forest built from a root with a reply and an orphan with a reply: the
\* forest holds the first two comments only
C17_Witness ==
    /\ commentTrees.built
    /\ Len(allComments) = TreeComments
    /\ \E i, j \in 1..Len(allComments) :
          /\ allComments[i].parent_id \notin InputIDs \cup {NoParent}
          /\ allComments[j].parent_id = allComments[i].id
    /\ Cardinality(NodesOf(commentTrees.trees)) = 2
    /\ Len(commentTrees.trees) = 1

\* C18: when every comment's parent chain ends at a parentless comment,
\* countTotalComments over the forest is the length of the list (the
\* total_comments of the page); when every chain ends at a parentless comment
\* or at a missing parent, it is the length less the orphaned comments and
\* their descendants.  Comments 1, 2 -> 1, 3 -> 2, 4 build two roots, the
\* chain 1 -> 2 -> 3, and total 4.
C18_TotalCount ==
    commentTrees.built =>
        LET places == 1..Len(allComments)
            total == countTotalComments(commentTrees.trees)
            orphaned == {i \in places : Orphaned(allComments[i])}
            rooted == {i \in places : Rooted(allComments[i])}
        IN /\ rooted = places => total = Len(allComments)
           /\ rooted \cup orphaned = places =>
                 total = Len(allComments) - Cardinality(orphaned)
           /\ allComments = <<[id |-> 1, parent_id |-> NoParent], [id |-> 2, parent_id |-> 1],
                              [id |-> 3, parent_id |-> 2], [id |-> 4, parent_id |-> NoParent]>>
                 => /\ total = 4
                    /\ CommentsOf(commentTrees.trees) = <<allComments[1], allComments[4]>>
                    /\ CommentsOf(commentTrees.trees[1].Replies) = <<allComments[2]>>
                    /\ CommentsOf(commentTrees.trees[1].Replies[1].Replies) = <<allComments[3]>>
                    /\ commentTrees.trees[1].Replies[1].Replies[1].Replies = <<>>
                    /\ commentTrees.trees[2].Replies = <<>>

\* the forest of the comments 1, 2 -> 1, 3 -> 2, 4 has been built and counted
C18_Witness ==
    /\ commentTrees.built
    /\ allComments = <<[id |-> 1, parent_id |-> NoParent], [id |-> 2, parent_id |-> 1],
                       [id |-> 3, parent_id |-> 2], [id |-> 4, parent_id |-> NoParent]>>
    /\ countTotalComments(commentTrees.trees) = Len(allComments)

\* ------------------------------------------------------------ claims, DeleteUser
\* the ids of the posts of a user, and of the comments that go with the user:
\* those on the user's posts and those the user wrote
PostsOfUser(U) == {p.id : p \in {q \in posts : q.user_id = U}}
CommentsGoingWith(U) ==
    {c.id : c \in {d \in comments : d.post_id \in PostsOfUser(U) \/ d.user_id = U}}

\* C19: after DeleteUser(U) has succeeded there is no user record of U, no
\* session of U, no post of U, no comment on U's posts, no comment written by
\* U, no vote cast by U, and no vote on U's posts or on any deleted comment.
C19_DeleteUserRemovesAll ==
    [][\A U \in DOMAIN users \ DOMAIN users' :
          /\ \A x \in sessions' : x.user_id # U
          /\ \A p \in posts' : p.user_id # U
          /\ \A c \in comments' : c.id \notin CommentsGoingWith(U)
          /\ \A r \in BagToSet(post_likes') :
                r.user_id # U /\ r.post_id \notin PostsOfUser(U)
          /\ \A r \in BagToSet(comment_likes') :
                r.user_id # U /\ r.comment_id \notin CommentsGoingWith(U)]_vars

\* C20: DeleteUser(U) leaves as they were every other user's account and
\* sessions, the posts of other users, their comments on posts that are not
\* U's, and their votes on posts and comments that are not deleted; it adds
\* nothing.
C20_DeleteUserFrame ==
    [][\A U \in DOMAIN users \ DOMAIN users' :
          /\ DOMAIN users' = DOMAIN users \ {U}
          /\ \A u \in DOMAIN users' : users'[u] = users[u]
          /\ sessions' = {x \in sessions : x.user_id # U}
          /\ posts' = {p \in posts : p.user_id # U}
          /\ comments' \subseteq comments
          /\ \A c \in comments :
                (c.user_id # U /\ c.post_id \notin PostsOfUser(U)) => c \in comments'
          /\ \A r \in BagToSet(post_likes) \cup BagToSet(post_likes') :
                IF r.user_id # U /\ r.post_id \notin PostsOfUser(U)
                THEN CopiesIn(r, post_likes') = CopiesIn(r, post_likes)
                ELSE CopiesIn(r, post_likes') <= CopiesIn(r, post_likes)
          /\ \A r \in BagToSet(comment_likes) \cup BagToSet(comment_likes') :
                IF r.user_id # U /\ r.comment_id \notin CommentsGoingWith(U)
                THEN CopiesIn(r, comment_likes') = CopiesIn(r, comment_likes)
                ELSE CopiesIn(r, comment_likes') <= CopiesIn(r, comment_likes)]_vars

\* user 2 is deleted: user 1 still has the account, the session, post 2 with
\* the vote on it and the reply written on post 2
C20_Witness ==
    /\ DOMAIN users = {1}
    /\ \E x \in sessions : x.user_id = 1
    /\ \E p \in posts : p.id = 2 /\ p.user_id = 1
    /\ \E c \in comments : c.id = 3 /\ c.user_id = 1 /\ c.post_id = 2
    /\ \E r \in BagToSet(post_likes) : r.user_id = 1 /\ r.post_id = 2
    /\ ~\E c \in comments : c.user_id = 2 \/ c.post_id = 1
\* C21: DeleteUser is all-or-nothing.  A step in which the begin, one of the
\* six deletions or the commit fails returns an error (the handler answers 500)
\* and leaves every table as it was; and of the transaction's steps only the
\* commit changes the tables other requests read, publishing the effect of
\* all six deletions at once.
C21_DeleteUserAllOrNothing ==
    [][ /\ (tx' # tx /\ tx'.state \in {"not begun", "rolled back"})
            => (tx'.err /\ tx'.status = 500 /\ tables' = tables)
        /\ (tx.state = "open" /\ tx' # tx /\ tables' # tables)
            => (/\ tx'.state = "committed" /\ ~tx'.err
                /\ Store' = DeleteUser(tx.userID)
                /\ sqlite_sequence' = sqlite_sequence) ]_vars

\* a commit that failed after all six deletions ran: the user and all the rows
\* are still there
C21_Witness ==
    /\ tx.state = "rolled back"
    /\ tx.step = 6
    /\ tx.userID \in DOMAIN users
    /\ \E c \in comments : c.user_id = tx.userID

\* C22: while a user is suspended, no create-post or create-comment request
\* with that user's session creates a post or a comment: every row a step adds
\* to posts or comments has an author who is not suspended.
C22_SuspendedCannotCreate ==
    [][ /\ \A p \in posts' \ posts : ~IsSuspended(p.user_id)
        /\ \A c \in comments' \ comments : ~IsSuspended(c.user_id) ]_vars

\* C23: every stored comment with a parent reference refers to an existing
\* comment on the same post as itself.
C23_ParentOnSamePost ==
    \A c \in comments :
        c.parent_id # NoParent =>
            \E d \in comments : d.id = c.parent_id /\ d.post_id = c.post_id

\* a step that removed sessions and added none
Swept == sessions' # sessions /\ sessions' \subseteq sessions

\* C24: the session sweep needs no coordination with request handling.  A
\* session whose expiry is not strictly in the future authenticates no request,
\* swept or not; a sweep removes only sessions whose expiry is strictly in the
\* past and adds none; and a sweep leaves the user every cookie authenticates
\* as it was.
C24_SweepNeedsNoCoordination ==
    [][ /\ \A s \in sessions : s.expires_at <= clock => GetCurrentUser(s.uuid) = NoUser
        /\ Swept =>
              /\ \A s \in sessions \ sessions' : s.expires_at < clock
              /\ \A cookie \in Cookies : GetCurrentUser(cookie)' = GetCurrentUser(cookie) ]_vars

\* the sweep has removed one user's session, another user's session has
\* expired since and is still stored, and a vote made with a live session is
\* in the table
C24_Witness ==
    /\ \E u \in UserIDs : \A s \in sessions : s.user_id # u
    /\ \E s \in sessions : s.expires_at < clock
    /\ post_likes # EmptyBag

\* the cookies of requests that carry no valid session or a non-admin's
Unprivileged ==
    {cookie \in Cookies :
        GetCurrentUser(cookie) = NoUser \/ ~IsAdmin(GetCurrentUser(cookie))}

\* C25: a suspend, unsuspend or admin-delete request without a session or by
\* a user who is not an admin is answered with the redirect to the login page
\* or with Forbidden, and changes nothing: no step that changes the state is a
\* step of such a request.
C25_AdminOnly ==
    [][ \A cookie \in Unprivileged :
          /\ AdminMiddleware(cookie) \in {"303 /login", "403 Forbidden"}
          /\ \A userID \in UserIDs, action \in {"suspend", "unsuspend"} :
                ~AdminSuspendUserHandler(cookie, userID, action)
          /\ \A userID \in UserIDs, confirmed \in BOOLEAN :
                ~AdminDeleteUserHandler(cookie, userID, confirmed) ]_vars

\* a logged-in user who is not an admin and gets Forbidden, while an account
\* is suspended (so that an unsuspend request would have something to change)
C25_Witness ==
    /\ \E cookie \in Unprivileged : AdminMiddleware(cookie) = "403 Forbidden"
    /\ \E u \in DOMAIN users : IsSuspended(u)

\* C26: a panic while a request is handled is caught by the recovery
\* middleware: that request is answered with status 500; and the server keeps
\* serving: every request it takes afterwards, on the connection that carried
\* the panic or on another, is answered as its route prescribes.
C26_PanicRecovered ==
    \A c \in Conns :
        /\ (conn[c].phase = "panicking")
              ~> (conn[c].phase = "done" /\ conn[c].route = "/test-panic"
                  /\ conn[c].status = 500)
        /\ \A route \in Routes \ {"/test-panic"} :
              (/\ conn[c].phase = "handling" /\ conn[c].route = route
               /\ \E d \in Conns : conn[d].panics > 0)
              ~> (/\ conn[c].phase = "done" /\ conn[c].route = route
                  /\ conn[c].status = CASE route = "/" -> 200
                                         [] route = "/test-500" -> 500
                                         [] OTHER -> 404)

\* the home page answered with 200 on a connection whose earlier request
\* panicked
C26_Witness ==
    \E c \in Conns :
        /\ conn[c].panics > 0
        /\ conn[c].phase = "done" /\ conn[c].route = "/" /\ conn[c].status = 200

\* a comment of the input whose parent chain never ends: it is on a cycle of
\* parent references (a self-reference included) or below one
Cyclic(c) == ~Rooted(c) /\ ~Orphaned(c)

\* C27: buildCommentTree returns for every list of comments with distinct ids,
\* cycles of parent references and self-references included; a comment on a
\* cycle or below one is nowhere in the forest; and the forest holds every
\* input comment at most once.
C27_TerminatesOnCycles ==
    /\ \E forest \in buildCommentTree(allComments) : Len(forest) <= Len(allComments)
    /\ commentTrees.built =>
          /\ \A i \in 1..Len(allComments) :
                Cyclic(allComments[i]) =>
                    \A node \in NodesOf(commentTrees.trees) :
                        node.Comment.id # allComments[i].id
          /\ \A node \in NodesOf(commentTrees.trees) : node.Comment.id \in InputIDs
          /\ countTotalComments(commentTrees.trees)
                = Cardinality({node.Comment.id : node \in NodesOf(commentTrees.trees)})

\* a forest built from a root, a comment that is its own parent and two
\* comments that are each other's parent: the forest is the root alone
C27_Witness ==
    /\ commentTrees.built
    /\ Len(allComments) = TreeComments
    /\ \E i, j, k \in 1..Len(allComments) :
          /\ i # j
          /\ allComments[i].parent_id = allComments[j].id
          /\ allComments[j].parent_id = allComments[i].id
          /\ allComments[k].parent_id = allComments[k].id
    /\ countTotalComments(commentTrees.trees) = 1

\* every vote refers to an existing post or comment and an existing user,
\* every comment to an existing post and an existing author, and every parent
\* reference to an existing comment
Integrity ==
    /\ \A r \in BagToSet(post_likes) :
          /\ \E p \in posts : p.id = r.post_id
          /\ r.user_id \in DOMAIN users
    /\ \A r \in BagToSet(comment_likes) :
          /\ \E c \in comments : c.id = r.comment_id
          /\ r.user_id \in DOMAIN users
    /\ \A c \in comments :
          /\ \E p \in posts : p.id = c.post_id
          /\ c.user_id \in DOMAIN users
          /\ c.parent_id # NoParent => \E d \in comments : d.id = c.parent_id
    /\ \A p \in posts : p.user_id \in DOMAIN users
    /\ \A s \in sessions : s.user_id \in DOMAIN users

\* C28: user deletion preserves referential integrity: a step that deletes a
\* user from tables whose references all resolve leaves tables whose
\* references all resolve.
C28_DeleteUserKeepsIntegrity ==
    [][ (DOMAIN users' # DOMAIN users /\ Integrity) => Integrity' ]_vars

\* C29: no admin is ever suspended.  SuspendUser on the id of an admin or on
\* an id no user has returns an error and changes no status; UnsuspendUser
\* changes nothing but the status of the user it names, which it sets to
\* active.
C29_AdminNeverSuspended ==
    /\ \A u \in DOMAIN users : IsAdmin(u) => ~IsSuspended(u)
    /\ \A userID \in 1..(MaxUsers + 1) :
          /\ (userID \notin DOMAIN users \/ IsAdmin(userID)) =>
                (SuspendUserErr(userID) /\ SuspendUser(userID) = users)
          /\ (userID \in DOMAIN users /\ ~IsAdmin(userID)) =>
                /\ ~SuspendUserErr(userID)
                /\ SuspendUser(userID) = [users EXCEPT ![userID].status = "suspended"]
          /\ UnsuspendUser(userID) =
                IF userID \in DOMAIN users
                THEN [users EXCEPT ![userID].status = "active"] ELSE users

\* suspend requests have been served: a user is suspended, the admin is
\* active, and SuspendUser on the admin's id returns the error
C29_Witness ==
    /\ AdminID \in DOMAIN users
    /\ SuspendUserErr(AdminID)
    /\ ~IsSuspended(AdminID)
    /\ \E u \in DOMAIN users : IsSuspended(u)

\* the request of goroutine p has passed the handler's checks and is a vote of
\* the given polarity
Accepted(p, isLike) == pc'[p] = "selected" /\ req'[p].isLike = isLike

\* C30: the vote handlers take the action value "like", exactly, as a like and
\* every other value, the missing and the empty one included, as a dislike:
\* a logged-in user's request with such a value is not rejected, it goes on to
\* LikePost / LikeComment as a dislike, and with no vote of the user on the
\* target it stores a dislike.
C30_OnlyLikeIsLike ==
    /\ [](\A p \in Procs, cookie \in Cookies, action \in Actions :
            (pc[p] = "idle" /\ GetCurrentUser(cookie) # NoUser) =>
                /\ ENABLED (/\ LikePostHandlerSelect(p, cookie, RacePosts, action, FALSE)
                            /\ Accepted(p, action = "like"))
                /\ ENABLED (/\ LikeCommentHandlerSelect(p, cookie, RaceComments, action, FALSE)
                            /\ Accepted(p, action = "like")))
    /\ [][ \A p \in Procs, cookie \in Cookies, action \in Actions :
             /\ \A postID \in 1..RacePosts :
                   LikePostHandlerSelect(p, cookie, postID, action, FALSE)
                      => Accepted(p, action = "like")
             /\ \A commentID \in 1..RaceComments :
                   LikeCommentHandlerSelect(p, cookie, commentID, action, FALSE)
                      => Accepted(p, action = "like")
             /\ (/\ pc[p] = "selected" /\ pc'[p] = "idle" /\ req[p].kind = "post"
                 /\ ~req[p].isLike
                 /\ PostLikeRows(post_likes, req[p].userID, req[p].targetID) = {}
                 /\ ~existingLike[p].found)
                => PostLikeRows(post_likes', req[p].userID, req[p].targetID)
                     = {[user_id |-> req[p].userID, post_id |-> req[p].targetID,
                         is_like |-> FALSE]} ]_vars

\* a dislike is stored on the post and no like: the votes sent with an action
\* other than "like"
C30_Witness ==
    /\ \E r \in BagToSet(post_likes) : ~r.is_like
    /\ \E r \in BagToSet(comment_likes) : ~r.is_like
    /\ \A p \in Procs : pc[p] = "idle"

====
